---------------------------- MODULE Spec2Model ----------------------------
(***************************************************************************)
(* A model of StatusBarFileSize.py: the size formatter file_size_str, the  *)
(* block-wise estimators estimate_file_size and calculate_gzip_size, and   *)
(* the event handler update_file_size, run against a view whose buffer an  *)
(* independent actor (the editor) may edit between any two reads.          *)
(*                                                                         *)
(* Text is a sequence of code points, encoded bytes are sequences of byte  *)
(* values.  The module constant BLOCK_SIZE (1000 in the source) is a       *)
(* variable fixed at Init to a small value, so that buffers of a few       *)
(* characters span several blocks.                                         *)
(***************************************************************************)
EXTENDS Integers, Sequences, FiniteSets, TLC

VARIABLES
    buffer,          \* the view's text: a sequence of code points
    change_count,    \* view.change_count(): +1 on every edit
    encoding_label,  \* view.encoding()
    line_endings_label, \* view.line_endings()
    file_name,       \* view.file_name() is set (TRUE) or None (FALSE)
    is_dirty,        \* view.is_dirty()
    disk,            \* what os.path.getsize(view.file_name()) yields
    status,          \* the view's status slot KEY_SIZE
    settings,        \* StatusBarFileSize.sublime-settings
    BLOCK_SIZE,      \* the module constant BLOCK_SIZE, scaled down
    call,            \* per thread of control: position and locals
    versions,        \* history: versions[t + 1] is the buffer at change_count t
    fmt              \* a direct call of file_size_str: its input and output

vars == <<buffer, change_count, encoding_label, line_endings_label, file_name,
          is_dirty, disk, status, settings, BLOCK_SIZE, call, versions, fmt>>

viewVars == <<encoding_label, line_endings_label, file_name, disk, settings,
              BLOCK_SIZE>>

----------------------------------------------------------------------------
(* Bounds of the model. *)

\* Longest buffer, in characters.
MaxLen == 3

\* Largest block size tried in place of 1000.
MaxBlockSize == 2

\* Edits the editor makes in one behaviour.
MaxEdits == 1

\* Longest initial buffer of the event handler's specification.
MaxUpdateLen == 2

\* Largest byte count handed to file_size_str directly, under each divisor.
MaxCount == 1100

\* The longest buffer and the largest block size of the calls that only
\* walk the ranges.
MaxRangeLen == 7

MaxRangeBlock == 3

\* The longest buffer two racing handlers start on.
MaxRaceLen == 1

----------------------------------------------------------------------------
(* Characters and labels. *)

\* "a": ASCII and a hexadecimal digit.
CharA == 97

\* "\n": the buffer's canonical line break; not a hexadecimal digit.
CharLF == 10

\* "\r"
CharCR == 13

\* U+00E9: outside ASCII, two bytes in UTF-8; not a hexadecimal digit.
CharEacute == 233

Alphabet == {CharA, CharLF, CharEacute}

\* Python's None, as a return value and as an empty status slot.
None == -1

Min(a, b) == IF a < b THEN a ELSE b

RECURSIVE TextsUpTo(_)
TextsUpTo(n) ==
    IF n = 0 THEN {<<>>}
    ELSE LET shorter == TextsUpTo(n - 1)
         IN  shorter \cup {Append(t, c) : t \in {s \in shorter : Len(s) = n - 1},
                                          c \in Alphabet}

SPECIAL_HEXADECIMAL == "special-hexadecimal"

\* The entries of ENCODING_MAP the model draws labels from.
ENCODING_MAP ==
    [l \in {"Undefined", "Hexadecimal", "UTF-8"} |->
        CASE l = "Undefined"   -> "ascii"
          [] l = "Hexadecimal" -> SPECIAL_HEXADECIMAL
          [] l = "UTF-8"       -> "utf-8"]

\* No encoding has a byte-order mark: the dictionary is empty.
CONSTANT_OVERHEAD == [l \in {} |-> <<>>]

LINE_ENDINGS_MAP ==
    [l \in {"Unix", "Windows", "CR"} |->
        CASE l = "Unix"    -> <<CharLF>>
          [] l = "Windows" -> <<CharCR, CharLF>>
          [] l = "CR"      -> <<CharCR>>]

\* A label of neither dictionary.
UnknownLabel == "Klingon"

EncodingLabels == DOMAIN ENCODING_MAP \cup {UnknownLabel}

LineEndingLabels == DOMAIN LINE_ENDINGS_MAP \cup {UnknownLabel}

\* Mutant of LineEndingsOf: LINE_ENDINGS_MAP.get(label, "\n"), no KeyError.
LineEndingsOrUnix(label) ==
    IF label \in DOMAIN LINE_ENDINGS_MAP THEN <<LINE_ENDINGS_MAP[label]>>
    ELSE <<(<<CharLF>>)>>

\* LINE_ENDINGS_MAP[view.line_endings()]: <<the string>>, or <<>> for a
\* KeyError.
LineEndingsOf(label) ==
    IF label \in DOMAIN LINE_ENDINGS_MAP THEN <<LINE_ENDINGS_MAP[label]>> ELSE <<>>

\* ENCODING_MAP[view.encoding()]: <<the codec>>, or <<>> for a KeyError.
EncodingOf(label) ==
    IF label \in DOMAIN ENCODING_MAP THEN <<ENCODING_MAP[label]>> ELSE <<>>

\* CONSTANT_OVERHEAD.get(view.encoding(), '')
OverheadOf(label) ==
    IF label \in DOMAIN CONSTANT_OVERHEAD THEN CONSTANT_OVERHEAD[label] ELSE <<>>

----------------------------------------------------------------------------
(* Pure helpers of the estimators. *)

\* Mutant of RangesFrom: the last pair is not cut at end.
RECURSIVE RangesFromUncut(_, _, _)
RangesFromUncut(i, end, bs) ==
    IF i < end THEN <<(<<i, i + bs>>)>> \o RangesFromUncut(i + bs, end, bs)
    ELSE <<>>

\* ranges(start, end, bs): the pairs the generator yields, in order.  As in
\* the source, start is not used: i begins at 0.
RECURSIVE RangesFrom(_, _, _)
RangesFrom(i, end, bs) ==
    IF i < end THEN <<(<<i, Min(i + bs, end)>>)>> \o RangesFrom(i + bs, end, bs)
    ELSE <<>>

ranges(start, end, bs) == RangesFrom(0, end, bs)

\* x in "abcdefABCDEF0123456789"
IsHexDigit(x) ==
    \/ x \in 48..57
    \/ x \in 65..70
    \/ x \in 97..102

RECURSIVE count_hex_digits(_)
count_hex_digits(s) ==
    IF s = <<>> THEN 0
    ELSE (IF IsHexDigit(Head(s)) THEN 1 ELSE 0) + count_hex_digits(Tail(s))

\* Mutant of Replace: the text is encoded with its "\n" as they are.
ReplaceNothing(text, le) == text

\* text.replace("\n", line_endings)
RECURSIVE Replace(_, _)
Replace(text, le) ==
    IF text = <<>> THEN <<>>
    ELSE (IF Head(text) = CharLF THEN le ELSE <<Head(text)>>) \o Replace(Tail(text), le)

\* Whether the codec has a byte sequence for code point c.
CanEncode(c, codec) ==
    IF codec = "ascii" THEN c < 128 ELSE TRUE

\* The codec's bytes for code point c (c < 2048).
EncodeChar(c, codec) ==
    IF c < 128 THEN <<c>>
    ELSE <<192 + (c \div 64), 128 + (c % 64)>>

\* Mutant of Raises: only the first character of the text is looked at.
RaisesAtStart(text, codec) == text # <<>> /\ ~CanEncode(text[1], codec)

\* str.encode(codec) raises UnicodeError.
Raises(text, codec) == \E k \in 1..Len(text) : ~CanEncode(text[k], codec)

\* str.encode(codec), when it does not raise.
RECURSIVE Encode(_, _)
Encode(text, codec) ==
    IF text = <<>> THEN <<>>
    ELSE EncodeChar(Head(text), codec) \o Encode(Tail(text), codec)

\* view.substr(sublime.Region(a, b)): the region is clipped to the buffer.
Substr(text, r) == SubSeq(text, Min(r[1], Len(text)) + 1, Min(r[2], Len(text)))

\* The value of int(size), size being kept in half bytes.
IntOf(halves) == halves \div 2

\* Mutant of HexHalves: floor division, so each block drops its half byte.
HexHalvesFloored(text) == 2 * (count_hex_digits(text) \div 2)

\* size += count_hex_digits(text) / 2: true division, so a half byte stays.
HexHalves(text) == count_hex_digits(text)

\* size += len(...encode(encoding)), in half bytes.
ByteHalves(bytes) == 2 * Len(bytes)

\* The gzip container around a DEFLATE stream: 10 bytes of header, 8 of
\* trailer.  The stream is taken as one fixed-Huffman block of literals
\* (3 bits of block header, 8 bits per byte below 144 and 9 above, 7 bits
\* of end-of-block), which is what zlib emits for a few bytes without
\* repeats; the codec is otherwise a black box.
RECURSIVE LiteralBits(_)
LiteralBits(bytes) ==
    IF bytes = <<>> THEN 0
    ELSE (IF Head(bytes) < 144 THEN 8 ELSE 9) + LiteralBits(Tail(bytes))

GzipTell(fed) == 10 + ((3 + LiteralBits(fed) + 7 + 7) \div 8) + 8

----------------------------------------------------------------------------
(* file_size_str.  A rendered size is [whole, frac, unit]: "%d %s" has no   *)
(* fraction (frac = None), "%.2f %s" has two decimals (frac in 0..99).      *)
(* size_val, a float in the source, is the exact fraction num / den; the    *)
(* divisions by a power of two are exact in floating point as well.         *)

sizes == <<"KiB", "MiB", "GiB", "TiB", "PiB", "EiB", "ZiB", "YiB">>

\* n / d rounded to the nearest integer, ties to even, as "%.2f" rounds.
RoundHalfEven(n, d) ==
    LET q == n \div d
        r == n % d
    IN  IF 2 * r < d THEN q
        ELSE IF 2 * r > d THEN q + 1
        ELSE IF q % 2 = 0 THEN q ELSE q + 1

\* "%.2f %s" % (num / den, unit)
Render2f(num, den, unit) ==
    LET h == RoundHalfEven(100 * num, den)
    IN  [whole |-> h \div 100, frac |-> h % 100, unit |-> unit]

\* Mutant of RenderBytes: the plural only above one, so "0 Byte".
RenderBytesAboveOne(size) ==
    [whole |-> size, frac |-> None, unit |-> IF size > 1 THEN "Bytes" ELSE "Byte"]

\* "%d %s" % (size, "Bytes" if size != 1 else "Byte")
RenderBytes(size) ==
    [whole |-> size, frac |-> None, unit |-> IF size # 1 THEN "Bytes" ELSE "Byte"]

\* Mutant of UnitWalk: size_val > divisor, so a power of the divisor stays
\* in the unit below.
RECURSIVE UnitWalkStrict(_, _, _, _)
UnitWalkStrict(num, den, divisor, k) ==
    IF k > Len(sizes) THEN Render2f(num * divisor, den, sizes[Len(sizes)])
    ELSE IF num > divisor * den THEN UnitWalkStrict(num, den * divisor, divisor, k + 1)
    ELSE Render2f(num, den, sizes[k])

\* Mutant of UnitWalk: after the last unit the value is returned as the
\* loop left it, one division too many.
RECURSIVE UnitWalkUnscaled(_, _, _, _)
UnitWalkUnscaled(num, den, divisor, k) ==
    IF k > Len(sizes) THEN Render2f(num, den, sizes[Len(sizes)])
    ELSE IF num >= divisor * den THEN UnitWalkUnscaled(num, den * divisor, divisor, k + 1)
    ELSE Render2f(num, den, sizes[k])

\* The loop over sizes, entered at sizes[k] with size_val = num / den.
RECURSIVE UnitWalk(_, _, _, _)
UnitWalk(num, den, divisor, k) ==
    IF k > Len(sizes) THEN Render2f(num * divisor, den, sizes[Len(sizes)])
    ELSE IF num >= divisor * den THEN UnitWalk(num, den * divisor, divisor, k + 1)
    ELSE Render2f(num, den, sizes[k])

file_size_str(size, divisor) ==
    IF size < divisor THEN RenderBytes(size)
    ELSE UnitWalk(size, divisor, divisor, 1)

\* The default divisor.
DefaultDivisor == 1024

----------------------------------------------------------------------------
(* Threads of control.  "t1" and "t2" are callbacks of the plugin host; a   *)
(* thread that is "off" never runs.  A thread's mode is the function it     *)
(* entered: "update" (update_file_size, by an editor event), or "estimate"  *)
(* and "gzip" (estimate_file_size and calculate_gzip_size called directly). *)

Threads == {"t1", "t2"}

\* The locals of update_file_size (size, gzip_size, pattern, gzip_pattern)
\* and of the estimator it is in (the recorded tag, the resolved codec and
\* line ending, the ranges not yet visited, the accumulated size in half
\* bytes, the bytes written to the GzipFile).  reads, edit_between,
\* est_called and gz_called are history: the blocks read by the current
\* estimator call, whether the buffer was edited between a block's read and
\* the next block's check, which estimators this run has called, and what
\* view.file_name() and view.is_dirty() answered, and trigger_tag, the
\* change count when the handler was called, which is kept where two
\* handlers share the view.  So are end, visited and
\* written: the view.size() the current estimator call read, the ranges it
\* has read in their order, and the number of bytes it wrote to the GzipFile.
Fresh(mode, pc) ==
    [mode |-> mode, pc |-> pc,
     size |-> None, gzip_size |-> None, pattern |-> "", gzip_pattern |-> "",
     est_tag |-> None, gz_tag |-> None,
     line_endings |-> <<>>, encoding |-> "",
     blocks |-> <<>>, acc |-> 0, fed |-> <<>>,
     reads |-> 0, edit_between |-> FALSE,
     end |-> None, visited |-> <<>>, written |-> 0,
     est_called |-> FALSE, gz_called |-> FALSE, trigger_tag |-> None,
     saw_file_name |-> FALSE, saw_dirty |-> FALSE]

Off == Fresh("update", "off")

Scanning == {"est_size", "est_check", "est_read", "gz_size", "gz_check", "gz_read"}

----------------------------------------------------------------------------
(* estimate_file_size *)

\* Mutant of EstReturn: the gzip size is asked for only after an estimate
\* that is not None.
EstReturnThenGzipIfSized(c, v) ==
    LET r == [c EXCEPT !.size = v, !.blocks = <<>>, !.acc = 0]
    IN  IF c.mode = "update"
        THEN [r EXCEPT !.pattern = "~{size}",
                       !.pc = IF settings.calculate_gzip /\ v # None THEN "gz_start"
                              ELSE "compose"]
        ELSE [r EXCEPT !.pc = "done"]

\* Where estimate_file_size returns to, with the caller's assignments:
\* size = estimate_file_size(view); pattern = "~{size}"; and the test of
\* setting_calculate_gzip that follows.
EstReturn(c, v) ==
    LET r == [c EXCEPT !.size = v, !.blocks = <<>>, !.acc = 0]
    IN  IF c.mode = "update"
        THEN [r EXCEPT !.pattern = "~{size}",
                       !.pc = IF settings.calculate_gzip THEN "gz_start" ELSE "compose"]
        ELSE [r EXCEPT !.pc = "done"]

\* tag = view.change_count(), and the three dictionary lookups; a KeyError
\* returns None.
EstStart(p) ==
    /\ call[p].pc = "est_start"
    /\ LET c == [call[p] EXCEPT !.est_tag = change_count, !.est_called = TRUE,
                                !.reads = 0, !.edit_between = FALSE,
                                !.end = None, !.visited = <<>>, !.written = 0]
           le == LineEndingsOf(line_endings_label)
           enc == EncodingOf(encoding_label)
       IN  IF le # <<>> /\ enc # <<>>
           THEN call' = [call EXCEPT ![p] =
                    [c EXCEPT !.line_endings = le[1],
                              !.encoding = enc[1],
                              !.acc = 2 * Len(OverheadOf(encoding_label)),
                              !.pc = "est_size"]]
           ELSE call' = [call EXCEPT ![p] = EstReturn(c, None)]
    /\ UNCHANGED <<buffer, change_count, is_dirty, status, versions, fmt, viewVars>>

\* The first step of the for loop: iterate_view_blocks reads view.size()
\* once and fixes the ranges.  No range: return int(size).
EstSize(p) ==
    /\ call[p].pc = "est_size"
    /\ LET bl == ranges(0, Len(buffer), BLOCK_SIZE)
       IN  call' = [call EXCEPT ![p] =
                IF bl = <<>> THEN EstReturn([@ EXCEPT !.end = Len(buffer)], IntOf(@.acc))
                ELSE [@ EXCEPT !.end = Len(buffer), !.blocks = bl,
                               !.pc = "est_check"]]
    /\ UNCHANGED <<buffer, change_count, is_dirty, status, versions, fmt, viewVars>>

\* Mutant of TagChanged: the comparison only sees a count that went down.
TagBehind(tag) == change_count < tag

\* view.change_count() != tag
TagChanged(tag) == change_count # tag

\* Mutant of EstCheck: a changed count starts the scan again on the buffer
\* as it now is.
EstCheckRetry(p) ==
    /\ call[p].pc = "est_check"
    /\ call' = [call EXCEPT ![p] =
            IF TagChanged(@.est_tag)
            THEN LET bl == ranges(0, Len(buffer), BLOCK_SIZE)
                 IN  IF bl = <<>> THEN EstReturn(@, 0)
                     ELSE [@ EXCEPT !.est_tag = change_count, !.blocks = bl,
                                    !.acc = 0, !.pc = "est_read"]
            ELSE [@ EXCEPT !.pc = "est_read"]]
    /\ UNCHANGED <<buffer, change_count, is_dirty, status, versions, fmt, viewVars>>

\* if view.change_count() != tag: return None
EstCheck(p) ==
    /\ call[p].pc = "est_check"
    /\ call' = [call EXCEPT ![p] =
            IF TagChanged(@.est_tag) THEN EstReturn(@, None)
            ELSE [@ EXCEPT !.pc = "est_read"]]
    /\ UNCHANGED <<buffer, change_count, is_dirty, status, versions, fmt, viewVars>>

\* What one block adds to size, in half bytes.
EstBlock(text, encoding, line_endings) ==
    IF encoding = SPECIAL_HEXADECIMAL THEN HexHalves(text)
    ELSE ByteHalves(Encode(Replace(text, line_endings), encoding))

\* Mutant of EstRead: the running size is a module-level variable, which
\* every call under way adds to.
EstReadSharedSize(p) ==
    /\ call[p].pc = "est_read"
    /\ LET c    == call[p]
           text == Substr(buffer, Head(c.blocks))
           rest == Tail(c.blocks)
           acc  == c.acc + EstBlock(text, c.encoding, c.line_endings)
           d    == [c EXCEPT !.reads = @ + 1, !.visited = Append(@, Head(c.blocks))]
       IN  call' = [q \in Threads |->
                IF q # p
                THEN IF call[q].pc \in {"est_check", "est_read"}
                     THEN [call[q] EXCEPT !.acc = acc] ELSE call[q]
                ELSE IF /\ c.encoding # SPECIAL_HEXADECIMAL
                        /\ Raises(Replace(text, c.line_endings), c.encoding)
                THEN EstReturn(d, None)
                ELSE IF rest = <<>> THEN EstReturn(d, IntOf(acc))
                ELSE [d EXCEPT !.acc = acc, !.blocks = rest, !.pc = "est_check"]]
    /\ UNCHANGED <<buffer, change_count, is_dirty, status, versions, fmt, viewVars>>

\* text = view.substr(r) and the block's contribution; after the last
\* block, return int(size).
EstRead(p) ==
    /\ call[p].pc = "est_read"
    /\ LET c    == call[p]
           text == Substr(buffer, Head(c.blocks))
           rest == Tail(c.blocks)
           acc  == c.acc + EstBlock(text, c.encoding, c.line_endings)
           d    == [c EXCEPT !.reads = @ + 1, !.visited = Append(@, Head(c.blocks))]
       IN  call' = [call EXCEPT ![p] =
                IF /\ c.encoding # SPECIAL_HEXADECIMAL
                   /\ Raises(Replace(text, c.line_endings), c.encoding)
                THEN EstReturn(d, None)
                ELSE IF rest = <<>> THEN EstReturn(d, IntOf(acc))
                ELSE [d EXCEPT !.acc = acc, !.blocks = rest, !.pc = "est_check"]]
    /\ UNCHANGED <<buffer, change_count, is_dirty, status, versions, fmt, viewVars>>

----------------------------------------------------------------------------
(* calculate_gzip_size *)

\* Where calculate_gzip_size returns to, with the caller's assignments:
\* gzip_size = calculate_gzip_size(view) and the gzip_pattern of its branch.
GzReturn(c, v) ==
    LET r == [c EXCEPT !.gzip_size = v, !.blocks = <<>>, !.fed = <<>>]
    IN  IF c.mode = "update"
        THEN [r EXCEPT !.gzip_pattern = IF c.pattern = "~{size}"
                                        THEN "~{size} ({gzip_size})"
                                        ELSE "{size} ({gzip_size})",
                       !.pc = "compose"]
        ELSE [r EXCEPT !.pc = "done"]

\* tag = view.change_count(), the three lookups (a KeyError returns None),
\* then the GzipFile is opened on an empty BytesIO and f.write(overhead),
\* which writes nothing for the empty default.
GzStart(p) ==
    /\ call[p].pc = "gz_start"
    /\ LET c == [call[p] EXCEPT !.gz_tag = change_count, !.gz_called = TRUE,
                                !.reads = 0, !.edit_between = FALSE,
                                !.end = None, !.visited = <<>>, !.written = 0]
           le == LineEndingsOf(line_endings_label)
           enc == EncodingOf(encoding_label)
       IN  IF le # <<>> /\ enc # <<>>
           THEN call' = [call EXCEPT ![p] =
                    [c EXCEPT !.line_endings = le[1],
                              !.encoding = enc[1],
                              !.fed = OverheadOf(encoding_label),
                              !.pc = "gz_size"]]
           ELSE call' = [call EXCEPT ![p] = GzReturn(c, None)]
    /\ UNCHANGED <<buffer, change_count, is_dirty, status, versions, fmt, viewVars>>

\* The first step of the for loop, as in estimate_file_size.  No range: the
\* with block ends, the stream is finished, return int(byte_content.tell()).
GzSize(p) ==
    /\ call[p].pc = "gz_size"
    /\ LET bl == ranges(0, Len(buffer), BLOCK_SIZE)
       IN  call' = [call EXCEPT ![p] =
                IF bl = <<>> THEN GzReturn([@ EXCEPT !.end = Len(buffer)], GzipTell(@.fed))
                ELSE [@ EXCEPT !.end = Len(buffer), !.blocks = bl,
                               !.pc = "gz_check"]]
    /\ UNCHANGED <<buffer, change_count, is_dirty, status, versions, fmt, viewVars>>

\* if view.change_count() != tag: return None
GzCheck(p) ==
    /\ call[p].pc = "gz_check"
    /\ call' = [call EXCEPT ![p] =
            IF TagChanged(@.gz_tag) THEN GzReturn(@, None)
            ELSE [@ EXCEPT !.pc = "gz_read"]]
    /\ UNCHANGED <<buffer, change_count, is_dirty, status, versions, fmt, viewVars>>

\* Mutant of GzRead: the block is written as it is read, its line endings
\* not replaced.
GzReadUnreplaced(p) ==
    /\ call[p].pc = "gz_read"
    /\ LET c    == call[p]
           text == Substr(buffer, Head(c.blocks))
           rest == Tail(c.blocks)
           d    == [c EXCEPT !.reads = @ + 1, !.visited = Append(@, Head(c.blocks))]
       IN  call' = [call EXCEPT ![p] =
                IF c.encoding = SPECIAL_HEXADECIMAL THEN GzReturn(d, None)
                ELSE IF Raises(text, c.encoding) THEN GzReturn(d, None)
                ELSE LET fed == c.fed \o Encode(text, c.encoding)
                         w   == [d EXCEPT !.written = Len(fed)]
                     IN  IF rest = <<>> THEN GzReturn(w, GzipTell(fed))
                         ELSE [w EXCEPT !.fed = fed, !.blocks = rest,
                                        !.pc = "gz_check"]]
    /\ UNCHANGED <<buffer, change_count, is_dirty, status, versions, fmt, viewVars>>

\* text = view.substr(r); the hexadecimal encoding returns None, and so does
\* a UnicodeError; else the block's bytes are written to the GzipFile.  After
\* the last block, return int(byte_content.tell()).
GzRead(p) ==
    /\ call[p].pc = "gz_read"
    /\ LET c    == call[p]
           text == Substr(buffer, Head(c.blocks))
           rest == Tail(c.blocks)
           repl == Replace(text, c.line_endings)
           d    == [c EXCEPT !.reads = @ + 1, !.visited = Append(@, Head(c.blocks))]
       IN  call' = [call EXCEPT ![p] =
                IF c.encoding = SPECIAL_HEXADECIMAL THEN GzReturn(d, None)
                ELSE IF Raises(repl, c.encoding) THEN GzReturn(d, None)
                ELSE LET fed == c.fed \o Encode(repl, c.encoding)
                         w   == [d EXCEPT !.written = Len(fed)]
                     IN  IF rest = <<>> THEN GzReturn(w, GzipTell(fed))
                         ELSE [w EXCEPT !.fed = fed, !.blocks = rest,
                                        !.pc = "gz_check"]]
    /\ UNCHANGED <<buffer, change_count, is_dirty, status, versions, fmt, viewVars>>

----------------------------------------------------------------------------
(* StatusBarFileSize.update_file_size, which is on_post_save_async,         *)
(* on_modified_async and on_activated_async.                                *)

\* Both threads are in use: two handlers share the view.
Racing == \A q \in Threads : call[q].pc # "off"

\* An event calls the handler: view.erase_status(KEY_SIZE), size = None,
\* gzip_size = None.
Trigger(p) ==
    /\ call[p].mode = "update"
    /\ call[p].pc \in {"idle", "done"}
    /\ call' = [call EXCEPT ![p] =
            [Fresh("update", "branch") EXCEPT
                !.trigger_tag = IF Racing THEN change_count ELSE None]]
    /\ status' = <<>>
    /\ UNCHANGED <<buffer, change_count, is_dirty, versions, fmt, viewVars>>

\* Mutant of Unsaved: "and" for "or".
UnsavedAndDirty(named, dirty) == ~named /\ dirty

\* not view.file_name() or view.is_dirty()
Unsaved(named, dirty) == ~named \/ dirty

\* if not view.file_name() or view.is_dirty(): ... else: ...
Branch(p) ==
    /\ call[p].pc = "branch"
    /\ call' = [call EXCEPT ![p] =
            [@ EXCEPT !.saw_file_name = file_name, !.saw_dirty = is_dirty,
                      !.pc = IF Unsaved(file_name, is_dirty)
                             THEN IF settings.estimate_file_size THEN "est_start"
                                  ELSE "compose"
                             ELSE "stat"]]
    /\ UNCHANGED <<buffer, change_count, is_dirty, status, versions, fmt, viewVars>>

\* size = os.path.getsize(view.file_name()); an OSError passes, with size
\* still None and the gzip size not computed.
Stat(p) ==
    /\ call[p].pc = "stat"
    /\ call' = [call EXCEPT ![p] =
            IF disk = None THEN [@ EXCEPT !.pc = "compose"]
            ELSE [@ EXCEPT !.size = disk, !.pattern = "{size}",
                           !.pc = IF settings.calculate_gzip THEN "gz_start"
                                  ELSE "compose"]]
    /\ UNCHANGED <<buffer, change_count, is_dirty, status, versions, fmt, viewVars>>

\* The text of the status: the pattern and its formatted arguments.
StatusText(c) ==
    IF c.gzip_size # None
    THEN [pattern |-> c.gzip_pattern,
          args |-> <<file_size_str(c.size, DefaultDivisor),
                     file_size_str(c.gzip_size, DefaultDivisor)>>]
    ELSE [pattern |-> c.pattern,
          args |-> <<file_size_str(c.size, DefaultDivisor)>>]

\* Mutant of Compose: "if size:" for "if size is not None:", which leaves a
\* size of 0 off the status bar.
ComposeIfTruthy(p) ==
    /\ call[p].pc = "compose"
    /\ call' = [call EXCEPT ![p].pc = "done"]
    /\ status' = IF call[p].size # None /\ call[p].size # 0
                 THEN <<StatusText(call[p])>> ELSE status
    /\ UNCHANGED <<buffer, change_count, is_dirty, versions, fmt, viewVars>>

\* if size is not None: view.set_status(KEY_SIZE, status); the handler ends.
Compose(p) ==
    /\ call[p].pc = "compose"
    /\ call' = [call EXCEPT ![p].pc = "done"]
    /\ status' = IF call[p].size # None THEN <<StatusText(call[p])>> ELSE status
    /\ UNCHANGED <<buffer, change_count, is_dirty, versions, fmt, viewVars>>

----------------------------------------------------------------------------
(* The editor. *)

\* The buffers one edit leads to: a character typed at the start, or the
\* first character deleted.
Edits(text) ==
    (IF Len(text) < MaxLen THEN {<<c>> \o text : c \in Alphabet} ELSE {})
    \cup (IF text # <<>> THEN {Tail(text)} ELSE {})

\* An edit changes the text, increments the change count and leaves the
\* view dirty.
Edit ==
    /\ change_count < MaxEdits
    /\ \E text \in Edits(buffer) :
        /\ buffer' = text
        /\ versions' = Append(versions, text)
    /\ change_count' = change_count + 1
    /\ is_dirty' = TRUE
    /\ call' = [p \in Threads |->
            IF call[p].pc \in {"est_check", "gz_check"} /\ call[p].reads > 0
            THEN [call[p] EXCEPT !.edit_between = TRUE]
            ELSE call[p]]
    /\ UNCHANGED <<status, fmt, viewVars>>

----------------------------------------------------------------------------
(* A direct call of file_size_str. *)

FormatCall ==
    /\ fmt.out = <<>>
    /\ fmt' = [fmt EXCEPT !.out = <<file_size_str(fmt.size, fmt.divisor)>>]
    /\ UNCHANGED <<buffer, change_count, is_dirty, status, call, versions, viewVars>>

----------------------------------------------------------------------------
(* Initial states and specifications. *)

\* The size of the file a save of text writes: the encoded bytes where the
\* codec is known and has every character, else one byte per character.
SavedSize(text, enc_label, le_label) ==
    IF enc_label \in DOMAIN ENCODING_MAP /\ le_label \in DOMAIN LINE_ENDINGS_MAP
    THEN LET codec == ENCODING_MAP[enc_label]
             repl  == Replace(text, LINE_ENDINGS_MAP[le_label])
         IN  IF codec = SPECIAL_HEXADECIMAL THEN count_hex_digits(text) \div 2
             ELSE IF Raises(repl, codec) THEN Len(text)
             ELSE Len(Encode(repl, codec))
    ELSE Len(text)

\* A view as the editor hands it to the plugin: any short text under any
\* label, not yet edited.
InitView(longest) ==
    /\ buffer \in TextsUpTo(longest)
    /\ change_count = 0
    /\ versions = <<buffer>>
    /\ encoding_label \in EncodingLabels
    /\ line_endings_label \in LineEndingLabels
    /\ BLOCK_SIZE \in 1..MaxBlockSize
    /\ status = <<>>

\* No direct call of file_size_str is under way.
NoFormat == [size |-> 0, divisor |-> DefaultDivisor, out |-> <<RenderBytes(0)>>]

\* The (size, divisor) pairs file_size_str is called with: every count up
\* to MaxCount under the divisors 2 and 1024, and the counts around 1024^2.
FormatInputs ==
    ((0..MaxCount) \X {2, DefaultDivisor})
    \cup ({1536, 1024 * 1024 - 1, 1024 * 1024, 1024 * 1024 + 5243} \X {DefaultDivisor})

\* The estimators called directly on an unsaved view.
InitEstimators ==
    /\ InitView(MaxLen)
    /\ file_name = FALSE
    /\ is_dirty = FALSE
    /\ disk = None
    /\ settings = [estimate_file_size |-> TRUE, calculate_gzip |-> FALSE]
    /\ \E pc \in {"est_start", "gz_start"} :
        call = [p \in Threads |->
                    IF p = "t1"
                    THEN Fresh(IF pc = "est_start" THEN "estimate" ELSE "gzip", pc)
                    ELSE Off]
    /\ fmt = NoFormat

NextEstimators ==
    \/ \E p \in Threads :
        \/ EstStart(p)
        \/ EstSize(p)
        \/ EstCheck(p)
        \/ EstRead(p)
        \/ GzStart(p)
        \/ GzSize(p)
        \/ GzCheck(p)
        \/ GzRead(p)
    \/ Edit

SpecEstimators == InitEstimators /\ [][NextEstimators]_vars

\* Two direct calls of the estimators, each of either function, on one view
\* that no one edits.
InitQuiet ==
    /\ InitView(MaxLen)
    /\ file_name = FALSE
    /\ is_dirty = FALSE
    /\ disk = None
    /\ settings = [estimate_file_size |-> TRUE, calculate_gzip |-> FALSE]
    /\ \E pc1, pc2 \in {"est_start", "gz_start"} :
        call = [p \in Threads |->
                    LET pc == IF p = "t1" THEN pc1 ELSE pc2
                    IN  Fresh(IF pc = "est_start" THEN "estimate" ELSE "gzip", pc)]
    /\ fmt = NoFormat

NextQuiet ==
    \E p \in Threads :
        \/ EstStart(p)
        \/ EstSize(p)
        \/ EstCheck(p)
        \/ EstRead(p)
        \/ GzStart(p)
        \/ GzSize(p)
        \/ GzCheck(p)
        \/ GzRead(p)

SpecQuiet == InitQuiet /\ [][NextQuiet]_vars

\* A call that is under way takes its next step: the thread it runs on is
\* scheduled, whatever the editor does meanwhile.
Fairness == WF_vars(NextQuiet)

SpecEstimatorsFair == SpecEstimators /\ Fairness

\* One direct call of an estimator on a longer buffer of plain letters,
\* under more block sizes.
InitRanges ==
    /\ \E n \in 0..MaxRangeLen : buffer = [k \in 1..n |-> CharA]
    /\ change_count = 0
    /\ versions = <<buffer>>
    /\ encoding_label = "UTF-8"
    /\ line_endings_label = "Unix"
    /\ BLOCK_SIZE \in 1..MaxRangeBlock
    /\ status = <<>>
    /\ file_name = FALSE
    /\ is_dirty = FALSE
    /\ disk = None
    /\ settings = [estimate_file_size |-> TRUE, calculate_gzip |-> FALSE]
    /\ \E pc \in {"est_start", "gz_start"} :
        call = [p \in Threads |->
                    IF p = "t1"
                    THEN Fresh(IF pc = "est_start" THEN "estimate" ELSE "gzip", pc)
                    ELSE Off]
    /\ fmt = NoFormat

SpecRanges == InitRanges /\ [][NextQuiet]_vars

\* The event handler on a view without a file, or with a file that is
\* there (disk is its size) or gone (disk is None), under any settings.
Init ==
    /\ InitView(MaxUpdateLen)
    /\ \/ file_name = FALSE /\ is_dirty = FALSE /\ disk = None
       \/ /\ file_name = TRUE
          /\ is_dirty \in BOOLEAN
          /\ disk \in {None, SavedSize(buffer, encoding_label, line_endings_label)}
    /\ settings \in [estimate_file_size : BOOLEAN, calculate_gzip : BOOLEAN]
    /\ call = [p \in Threads |-> IF p = "t1" THEN Fresh("update", "idle") ELSE Off]
    /\ fmt = NoFormat

Next ==
    \/ \E p \in Threads :
        \/ Trigger(p)
        \/ Branch(p)
        \/ Stat(p)
        \/ EstStart(p)
        \/ EstSize(p)
        \/ EstCheck(p)
        \/ EstRead(p)
        \/ GzStart(p)
        \/ GzSize(p)
        \/ GzCheck(p)
        \/ GzRead(p)
        \/ Compose(p)
    \/ Edit

Spec == Init /\ [][Next]_vars

\* Two events on one view, each calling the handler on a thread of its own,
\* time and again; the view is UTF-8 with Unix line endings.
InitRace ==
    /\ buffer \in TextsUpTo(MaxRaceLen)
    /\ change_count = 0
    /\ versions = <<buffer>>
    /\ encoding_label = "UTF-8"
    /\ line_endings_label = "Unix"
    /\ BLOCK_SIZE = 1
    /\ status = <<>>
    /\ \/ file_name = FALSE /\ is_dirty = FALSE /\ disk = None
       \/ /\ file_name = TRUE
          /\ is_dirty \in BOOLEAN
          /\ disk \in {None, SavedSize(buffer, encoding_label, line_endings_label)}
    /\ settings \in [estimate_file_size : BOOLEAN, calculate_gzip : BOOLEAN]
    /\ call = [p \in Threads |-> Fresh("update", "idle")]
    /\ fmt = NoFormat

SpecRace == InitRace /\ [][Next]_vars

\* file_size_str called directly.
InitFormat ==
    /\ buffer = <<>>
    /\ change_count = 0
    /\ versions = <<buffer>>
    /\ encoding_label = "UTF-8"
    /\ line_endings_label = "Unix"
    /\ BLOCK_SIZE = 1
    /\ status = <<>>
    /\ file_name = FALSE
    /\ is_dirty = FALSE
    /\ disk = None
    /\ settings = [estimate_file_size |-> TRUE, calculate_gzip |-> FALSE]
    /\ call = [p \in Threads |-> Off]
    /\ \E in \in FormatInputs : fmt = [size |-> in[1], divisor |-> in[2], out |-> <<>>]

NextFormat == FormatCall

SpecFormat == InitFormat /\ [][NextFormat]_vars

----------------------------------------------------------------------------
(* Reference sizes, computed over a whole text and not block by block. *)

\* The bytes one character of the buffer takes in the file.
CharBytes(c, codec, le) ==
    IF c = CharLF THEN Len(Encode(le, codec)) ELSE Len(EncodeChar(c, codec))

RECURSIVE SumCharBytes(_, _, _)
SumCharBytes(text, codec, le) ==
    IF text = <<>> THEN 0
    ELSE CharBytes(Head(text), codec, le) + SumCharBytes(Tail(text), codec, le)

\* The encoded size of a whole text under the view's labels, both known.
ExactSize(text) ==
    LET codec == ENCODING_MAP[encoding_label]
    IN  IF codec = SPECIAL_HEXADECIMAL
        THEN Cardinality({k \in 1..Len(text) : IsHexDigit(text[k])}) \div 2
        ELSE Len(OverheadOf(encoding_label))
             + SumCharBytes(text, codec, LINE_ENDINGS_MAP[line_endings_label])

KnownLabels ==
    /\ encoding_label \in DOMAIN ENCODING_MAP
    /\ line_endings_label \in DOMAIN LINE_ENDINGS_MAP

\* A direct call of estimate_file_size (of calculate_gzip_size) has returned.
EstDone(p) == call[p].mode = "estimate" /\ call[p].pc = "done"

GzDone(p) == call[p].mode = "gzip" /\ call[p].pc = "done"

\* No edit since the tag was recorded.
EstStable(p) == change_count = call[p].est_tag

----------------------------------------------------------------------------
(* The claims. *)

\* C1: every number estimate_file_size returns is the exact encoded size of
\* the buffer version whose change count it recorded at its start, whatever
\* edits interleave with its steps.
C1_ExactForRecordedVersion ==
    \A p \in Threads :
        (EstDone(p) /\ call[p].size # None)
            => call[p].size = ExactSize(versions[call[p].est_tag + 1])

\* C2: when the buffer is edited after a block was read and before the next
\* block's change-count check, estimate_file_size and calculate_gzip_size
\* return None, not a count built from the blocks read so far.
C2_EditBetweenBlocksAborts ==
    \A p \in Threads :
        /\ (EstDone(p) /\ call[p].edit_between) => call[p].size = None
        /\ (GzDone(p) /\ call[p].edit_between) => call[p].gzip_size = None

\* C2 witness: estimate_file_size has returned after an edit that fell
\* between its second block's read and its third block's check.
C2_Witness ==
    \E p \in Threads :
        EstDone(p) /\ call[p].edit_between /\ call[p].reads = 2

\* C3: on a buffer not edited during the call, under a known codec other
\* than the hexadecimal one and a known line ending, with every character
\* encodable, estimate_file_size returns the overhead plus the bytes of
\* every character after "\n" became the line ending, whatever the block
\* size and the length; ASCII text under UTF-8/Unix gives its length, and
\* n line breaks under Windows endings give 2n.
C3_StableSizeIsExact ==
    \A p \in Threads :
        (/\ EstDone(p)
         /\ EstStable(p)
         /\ KnownLabels
         /\ ENCODING_MAP[encoding_label] # SPECIAL_HEXADECIMAL
         /\ ~Raises(buffer, ENCODING_MAP[encoding_label]))
            => /\ call[p].size = ExactSize(buffer)
               /\ (buffer = <<>>) => call[p].size = Len(OverheadOf(encoding_label))
               /\ (/\ encoding_label = "UTF-8"
                   /\ line_endings_label = "Unix"
                   /\ \A k \in 1..Len(buffer) : buffer[k] < 128)
                      => call[p].size = Len(buffer)
               /\ (/\ line_endings_label = "Windows"
                   /\ \A k \in 1..Len(buffer) : buffer[k] = CharLF)
                      => call[p].size = 2 * Len(buffer)

\* C3 witness: a stable three-character buffer read in blocks of one, with
\* a line break under Windows endings and a two-byte character under UTF-8.
C3_Witness ==
    \E p \in Threads :
        /\ EstDone(p)
        /\ EstStable(p)
        /\ encoding_label = "UTF-8"
        /\ line_endings_label = "Windows"
        /\ buffer = <<CharA, CharLF, CharEacute>>
        /\ BLOCK_SIZE = 1
        /\ call[p].size = 5

\* C4: on a stable buffer under the hexadecimal encoding, estimate_file_size
\* returns floor(H / 2), H the hexadecimal digits of the whole buffer,
\* however the blocks split them: half bytes add up across blocks.
C4_HexFlooredOnce ==
    \A p \in Threads :
        (/\ EstDone(p)
         /\ EstStable(p)
         /\ line_endings_label \in DOMAIN LINE_ENDINGS_MAP
         /\ encoding_label = "Hexadecimal")
            => call[p].size
                 = Cardinality({k \in 1..Len(buffer) : IsHexDigit(buffer[k])}) \div 2

\* C4 witness: three hexadecimal digits read in three blocks of one digit
\* each give 1.
C4_Witness ==
    \E p \in Threads :
        /\ EstDone(p)
        /\ EstStable(p)
        /\ encoding_label = "Hexadecimal"
        /\ buffer = <<CharA, CharA, CharA>>
        /\ BLOCK_SIZE = 1
        /\ call[p].reads = 3
        /\ call[p].size = 1

\* C5: calculate_gzip_size returns None on every buffer under the
\* hexadecimal encoding, the empty buffer included, under every line ending.
C5_GzipDeclinesHexadecimal ==
    \A p \in Threads :
        (GzDone(p) /\ encoding_label = "Hexadecimal") => call[p].gzip_size = None

\* C6: with a label missing from ENCODING_MAP or from LINE_ENDINGS_MAP, both
\* estimators return None and read no block of the buffer.
C6_UnknownLabelReturnsNone ==
    \A p \in Threads :
        ~KnownLabels
            => /\ call[p].pc \notin Scanning
               /\ call[p].reads = 0
               /\ EstDone(p) => call[p].size = None
               /\ GzDone(p) => call[p].gzip_size = None

\* C6 witness: calculate_gzip_size has returned on a non-empty buffer whose
\* encoding is known and whose line ending is not.
C6_Witness ==
    \E p \in Threads :
        /\ GzDone(p)
        /\ encoding_label = "UTF-8"
        /\ line_endings_label = UnknownLabel
        /\ Len(buffer) = MaxLen

----------------------------------------------------------------------------
(* file_size_str, called directly. *)

RECURSIVE FloorLog(_, _)
FloorLog(n, b) == IF n < b THEN 0 ELSE 1 + FloorLog(n \div b, b)

RECURSIVE Pow(_, _)
Pow(b, k) == IF k = 0 THEN 1 ELSE b * Pow(b, k - 1)

Abs(x) == IF x < 0 THEN 0 - x ELSE x

Formatted == fmt.out # <<>>

\* C7: below the divisor, file_size_str renders the count itself, as an
\* integer, with the unit "Bytes", or "Byte" for a count of 1; never with
\* KiB or a larger unit.
C7_BelowBaseInBytes ==
    (Formatted /\ fmt.size < fmt.divisor)
        => /\ fmt.out[1].whole = fmt.size
           /\ fmt.out[1].frac = None
           /\ fmt.out[1].unit = (IF fmt.size = 1 THEN "Byte" ELSE "Bytes")
           /\ \A k \in 1..Len(sizes) : fmt.out[1].unit # sizes[k]

\* C7 witness: a count of 1 under the default divisor was rendered, in the
\* singular.
C7_Witness ==
    /\ Formatted
    /\ fmt.size = 1
    /\ fmt.divisor = DefaultDivisor
    /\ fmt.out[1].unit = "Byte"

\* C8: for divisor <= count < divisor^9, file_size_str takes the unit at
\* position k with divisor^k <= count < divisor^(k+1) and renders
\* count / divisor^k to two decimals; 1024 is "1.00 KiB", 1024 * 1024 is
\* "1.00 MiB" and 1536 is "1.50 KiB".
C8_UnitAndValue ==
    LET k == FloorLog(fmt.size, fmt.divisor)
        o == fmt.out[1]
        h == 100 * o.whole + o.frac
    IN  /\ (Formatted /\ k \in 1..Len(sizes))
            => /\ o.unit = sizes[k]
               /\ o.frac \in 0..99
               /\ 2 * Abs(h * Pow(fmt.divisor, k) - 100 * fmt.size)
                    <= Pow(fmt.divisor, k)
        /\ (Formatted /\ fmt.divisor = 1024 /\ fmt.size = 1024)
            => o = [whole |-> 1, frac |-> 0, unit |-> "KiB"]
        /\ (Formatted /\ fmt.divisor = 1024 /\ fmt.size = 1024 * 1024)
            => o = [whole |-> 1, frac |-> 0, unit |-> "MiB"]
        /\ (Formatted /\ fmt.divisor = 1024 /\ fmt.size = 1536)
            => o = [whole |-> 1, frac |-> 50, unit |-> "KiB"]

\* C8 witness: 1536 under the divisor 1024 was rendered, in KiB.
C8_Witness ==
    /\ Formatted
    /\ fmt.size = 1536
    /\ fmt.divisor = 1024
    /\ fmt.out[1].unit = "KiB"
    /\ fmt.out[1].frac = 50

----------------------------------------------------------------------------
(* update_file_size *)

\* The handler has run to its end.
UpdateDone(p) == call[p].mode = "update" /\ call[p].pc = "done"

\* What the handler's test found: no file name, or a dirty view.
SawUnsaved(p) == ~call[p].saw_file_name \/ call[p].saw_dirty

\* The pattern has the "~" of an estimate.
Marked(pattern) == pattern \in {"~{size}", "~{size} ({gzip_size})"}

\* C9: a view without a file name or dirty gets its size from
\* estimate_file_size if the estimate_file_size setting is on, and no size
\* at all if it is off; any other view gets the size the file system
\* reports.  The status has the "~" exactly when the size is an estimate.
C9_SizeSource ==
    \A p \in Threads :
        UpdateDone(p)
            => /\ call[p].est_called
                    <=> (SawUnsaved(p) /\ settings.estimate_file_size)
               /\ (SawUnsaved(p) /\ ~settings.estimate_file_size) => status = <<>>
               /\ (~SawUnsaved(p) /\ disk # None)
                    => /\ status # <<>>
                       /\ status[1].args[1] = file_size_str(disk, DefaultDivisor)
               /\ (~SawUnsaved(p) /\ disk = None) => status = <<>>
               /\ (call[p].est_called /\ status # <<>>)
                    => status[1].args[1] = file_size_str(call[p].size, DefaultDivisor)
               /\ status # <<>> => (Marked(status[1].pattern) <=> call[p].est_called)

\* C9 witness: a dirty view with a file name, whose status shows an
\* estimate.
C9_Witness ==
    \E p \in Threads :
        /\ UpdateDone(p)
        /\ call[p].saw_file_name
        /\ call[p].saw_dirty
        /\ status # <<>>
        /\ status[1].pattern = "~{size}"

\* C10 as claimed: with calculate_gzip on, every run of the handler calls
\* calculate_gzip_size, in either branch and whatever estimate_file_size is
\* set to.
C10_GzipAlwaysComputed ==
    \A p \in Threads :
        (UpdateDone(p) /\ settings.calculate_gzip) => call[p].gz_called

\* C10 as amended: a run of the handler calls calculate_gzip_size exactly
\* when calculate_gzip is on and its branch came to a size: in the branch
\* of a view without a file name or dirty, when estimate_file_size is on
\* (whatever the estimator returned); in the other branch, when
\* os.path.getsize did not raise.
C10_GzipComputedWithSize ==
    \A p \in Threads :
        UpdateDone(p)
            => (call[p].gz_called
                    <=> /\ settings.calculate_gzip
                        /\ \/ SawUnsaved(p) /\ settings.estimate_file_size
                           \/ ~SawUnsaved(p) /\ disk # None)

\* C10 witness: the estimate came back None, for an edit during its scan,
\* and the gzip size was computed all the same.
C10_Witness ==
    \E p \in Threads :
        /\ UpdateDone(p)
        /\ SawUnsaved(p)
        /\ call[p].size = None
        /\ call[p].gz_called
        /\ call[p].gzip_size # None

\* The status has the gzip annotation.
Annotated(st) == st # <<>> /\ Len(st[1].args) = 2

\* The status the handler leaves, by the sizes it came to.
StatusBySizes(p) ==
    /\ status # <<>> <=> call[p].size # None
    /\ status # <<>>
            => status[1].args[1] = file_size_str(call[p].size, DefaultDivisor)
    /\ (SawUnsaved(p) /\ ~settings.estimate_file_size) => status = <<>>
    /\ (~SawUnsaved(p) /\ disk = None) => status = <<>>
    /\ (call[p].est_called /\ ~KnownLabels) => status = <<>>
    /\ (call[p].size # None /\ call[p].gzip_size = None)
            => /\ status # <<>>
               /\ status[1].pattern \in {"{size}", "~{size}"}
               /\ Len(status[1].args) = 1

\* C11 as claimed: when the handler has run to its end alone, the status is
\* set if and only if it came to a size (0 included) and is left erased in
\* every other case; a None of calculate_gzip_size alone leaves the size
\* without annotation; and the annotation is there exactly when
\* calculate_gzip is on and calculate_gzip_size returned a value.
C11_AnnotatedWheneverGzipReturned ==
    \A p \in Threads :
        UpdateDone(p)
            => /\ StatusBySizes(p)
               /\ Annotated(status)
                    <=> /\ settings.calculate_gzip
                        /\ call[p].gz_called
                        /\ call[p].gzip_size # None

\* C11 as amended: the same, with the annotation there exactly when the
\* handler came to a size, calculate_gzip is on and calculate_gzip_size
\* returned a value: an estimate of None leaves the status erased whatever
\* calculate_gzip_size returned.
C11_StatusIffSize ==
    \A p \in Threads :
        UpdateDone(p)
            => /\ StatusBySizes(p)
               /\ Annotated(status)
                    <=> /\ call[p].size # None
                        /\ settings.calculate_gzip
                        /\ call[p].gz_called
                        /\ call[p].gzip_size # None
               /\ Annotated(status)
                    => /\ status[1].pattern = call[p].gzip_pattern
                       /\ status[1].args[2]
                            = file_size_str(call[p].gzip_size, DefaultDivisor)

\* C11 witness: an empty buffer under the hexadecimal encoding with both
\* settings on is shown with its size of 0 and the gzip size beside it.
C11_Witness ==
    \E p \in Threads :
        /\ UpdateDone(p)
        /\ call[p].est_called
        /\ call[p].size = 0
        /\ Annotated(status)
        /\ status[1].args[1] = RenderBytes(0)

----------------------------------------------------------------------------
(* The estimators side by side. *)

\* A step of estimate_file_size or of calculate_gzip_size.
EstimatorStep(p) ==
    \/ EstStart(p)
    \/ EstSize(p)
    \/ EstCheck(p)
    \/ EstRead(p)
    \/ GzStart(p)
    \/ GzSize(p)
    \/ GzCheck(p)
    \/ GzRead(p)

\* The text has a character the codec of the view's label has no bytes for.
Unencodable(text) ==
    /\ ENCODING_MAP[encoding_label] = "ascii"
    /\ \E k \in 1..Len(text) : text[k] > 127

\* What estimate_file_size returns for the buffer when nothing else runs.
AloneEstimate ==
    IF ~KnownLabels THEN None
    ELSE IF Unencodable(buffer) THEN None
    ELSE ExactSize(buffer)

\* What calculate_gzip_size returns for the buffer when nothing else runs.
AloneGzip ==
    IF ~KnownLabels THEN None
    ELSE IF buffer = <<>> THEN GzipTell(<<>>)
    ELSE IF ENCODING_MAP[encoding_label] = SPECIAL_HEXADECIMAL THEN None
    ELSE IF Unencodable(buffer) THEN None
    ELSE GzipTell(Encode(Replace(buffer, LINE_ENDINGS_MAP[line_endings_label]),
                         ENCODING_MAP[encoding_label]))

\* C12: a step of either estimator leaves the buffer's text, its length, its
\* change count, its labels, the settings and the status slot as they were,
\* and the other call's locals too; so of two calls whose steps interleave
\* on one buffer each returns what it returns when run alone.
C12_EstimatorsReadOnly ==
    /\ [][\A p \in Threads :
            EstimatorStep(p)
                => /\ UNCHANGED <<buffer, change_count, encoding_label,
                                  line_endings_label, settings, status,
                                  file_name, is_dirty, disk, BLOCK_SIZE>>
                   /\ \A q \in Threads \ {p} : call'[q] = call[q]]_vars
    /\ [](\A p \in Threads :
            /\ EstDone(p) => call[p].size = AloneEstimate
            /\ GzDone(p) => call[p].gzip_size = AloneGzip)

\* C12 witness: one call of estimate_file_size has returned a size after
\* three blocks while another one is between its first and second block.
C12_Witness ==
    /\ EstDone("t1")
    /\ call["t1"].reads = 3
    /\ call["t1"].size = 5
    /\ call["t2"].mode = "estimate"
    /\ call["t2"].pc = "est_check"
    /\ call["t2"].reads = 1

\* The view's encoding label is not the hexadecimal one.
NonHexadecimal ==
    encoding_label \in DOMAIN ENCODING_MAP
        => ENCODING_MAP[encoding_label] # SPECIAL_HEXADECIMAL

\* C13: on a buffer no one edits, under an encoding other than the
\* hexadecimal one, calculate_gzip_size reads the same ranges in the same
\* order as estimate_file_size, returns None exactly when estimate_file_size
\* does, and when both return a value the bytes it has written to the
\* GzipFile are as many as estimate_file_size returns.
C13_GzipScansAsEstimate ==
    \A p, q \in Threads :
        (EstDone(p) /\ GzDone(q) /\ NonHexadecimal)
            => /\ call[q].visited = call[p].visited
               /\ call[q].end = call[p].end
               /\ call[q].gzip_size = None <=> call[p].size = None
               /\ call[p].size # None => call[q].written = call[p].size

\* C13 witness: three blocks under Windows line endings, one of them a
\* line feed; both calls returned, with four bytes counted and written.
C13_Witness ==
    \E p, q \in Threads :
        /\ EstDone(p)
        /\ GzDone(q)
        /\ NonHexadecimal
        /\ line_endings_label = "Windows"
        /\ call[p].visited = <<<<0, 1>>, <<1, 2>>, <<2, 3>>>>
        /\ call[q].visited = call[p].visited
        /\ call[p].size = 4
        /\ call[q].written = 4
        /\ call[q].gzip_size # None

----------------------------------------------------------------------------
(* ranges *)

\* rs cuts 0..len-1 into consecutive half-open pairs of bs positions each,
\* the last one of what is left.
Partition(rs, len, bs) ==
    /\ len = 0 <=> rs = <<>>
    /\ Len(rs) = (len + bs - 1) \div bs
    /\ rs # <<>> => rs[1][1] = 0 /\ rs[Len(rs)][2] = len
    /\ \A i \in 1..Len(rs) :
        /\ 0 < rs[i][2] - rs[i][1]
        /\ rs[i][2] - rs[i][1] <= bs
        /\ i < Len(rs) => rs[i + 1][1] = rs[i][2] /\ rs[i][2] - rs[i][1] = bs
    /\ \A k \in 0..(len - 1) :
        Cardinality({i \in 1..Len(rs) : rs[i][1] <= k /\ k < rs[i][2]}) = 1

\* C14: for every length and block size, the ranges a scan is given are
\* consecutive half-open pairs: the first starts at 0, each starts where the
\* one before ends, each has more than zero and at most block-size
\* positions, only the last can have fewer, the last ends at the length, so
\* every position is in exactly one range; a zero-length buffer has none.
\* The ranges a call has read when it returns are those.
C14_RangesPartition ==
    \A p \in Threads :
        /\ (call[p].pc \in {"est_check", "gz_check"} /\ call[p].reads = 0)
                => /\ Partition(call[p].blocks, Len(buffer), BLOCK_SIZE)
                   /\ call[p].blocks = ranges(0, call[p].end, BLOCK_SIZE)
        /\ (EstDone(p) \/ GzDone(p))
                => /\ Partition(call[p].visited, Len(buffer), BLOCK_SIZE)
                   /\ buffer = <<>> => call[p].reads = 0

\* C14 witness: seven positions in blocks of three, the last range of one.
C14_Witness ==
    \E p \in Threads :
        /\ call[p].pc = "est_check"
        /\ call[p].reads = 0
        /\ Len(buffer) = 7
        /\ call[p].blocks = <<<<0, 3>>, <<3, 6>>, <<6, 7>>>>

----------------------------------------------------------------------------
(* Termination *)

\* The number of ranges of a buffer of len positions.
BlockCount(len, bs) == (len + bs - 1) \div bs

\* A call under way has read no more blocks than the length it read at the
\* start of its scan has, reads them one by one without going back, and is
\* never kept from its next step.
ScanBounded(p) ==
    /\ call[p].end # None => call[p].reads <= BlockCount(call[p].end, BLOCK_SIZE)
    /\ call[p].pc \in {"est_check", "est_read", "gz_check", "gz_read"}
            => /\ call[p].end # None
               /\ call[p].reads + Len(call[p].blocks)
                    = BlockCount(call[p].end, BLOCK_SIZE)
    /\ call[p].end = None => call[p].reads = 0
    /\ call[p].pc \notin {"off", "done"} => ENABLED EstimatorStep(p)

\* C15: every call of an estimator returns, after at most
\* ceil(L / BLOCK_SIZE) block iterations, L being the view.size() it read
\* once when its scan began, whatever edits happen meanwhile; it never waits
\* and never starts again.
C15_ScanTerminates ==
    /\ [](\A p \in Threads : ScanBounded(p))
    /\ <>(\A p \in Threads : call[p].pc \in {"off", "done"})

\* C15 witness: a call returned a size after reading the three blocks its
\* scan began with, on a buffer edited meanwhile.
C15_Witness ==
    \E p \in Threads :
        /\ EstDone(p)
        /\ call[p].end = 3
        /\ BLOCK_SIZE = 1
        /\ call[p].reads = 3
        /\ call[p].size # None
        /\ change_count > call[p].est_tag
        /\ Len(buffer) # call[p].end

----------------------------------------------------------------------------
(* Encoding failure *)

\* C16: when the buffer has a character the codec cannot represent, in
\* whichever block and after however many blocks that were encoded, a call
\* of either estimator on that buffer returns None, never the sum or the
\* compressed size it had come to.
C16_UnencodableReturnsNone ==
    \A p \in Threads :
        /\ (EstDone(p) /\ EstStable(p) /\ KnownLabels /\ Unencodable(buffer))
                => call[p].size = None
        /\ (GzDone(p) /\ change_count = call[p].gz_tag /\ KnownLabels
                /\ Unencodable(buffer))
                => call[p].gzip_size = None

\* C16 witness: two blocks of ascii letters were read before the block
\* with the e acute, and the call returned None.
C16_Witness ==
    \E p \in Threads :
        /\ EstDone(p)
        /\ EstStable(p)
        /\ KnownLabels
        /\ Unencodable(buffer)
        /\ buffer = <<CharA, CharA, CharEacute>>
        /\ call[p].visited = <<<<0, 1>>, <<1, 2>>, <<2, 3>>>>
        /\ call[p].size = None

----------------------------------------------------------------------------
(* file_size_str past the last unit *)

\* C17: a count of divisor^9 or more, which the eight units do not bring
\* below the divisor, is rendered in the last unit, YiB, as
\* count / divisor^8 to two decimals: the scaling of the counts from
\* divisor^8 up to divisor^9, with no step at divisor^9.
C17_SaturatesAtLastUnit ==
    LET k == FloorLog(fmt.size, fmt.divisor)
        o == fmt.out[1]
        h == 100 * o.whole + o.frac
        last == Len(sizes)
    IN  /\ (Formatted /\ k >= last)
            => /\ o.unit = sizes[last]
               /\ o.unit = "YiB"
               /\ o.frac \in 0..99
               /\ 2 * Abs(h * Pow(fmt.divisor, last) - 100 * fmt.size)
                    <= Pow(fmt.divisor, last)
        /\ (Formatted /\ fmt.divisor = 2 /\ fmt.size = 511)
            => o = [whole |-> 2, frac |-> 0, unit |-> "YiB"]
        /\ (Formatted /\ fmt.divisor = 2 /\ fmt.size = 512)
            => o = [whole |-> 2, frac |-> 0, unit |-> "YiB"]
        /\ (Formatted /\ fmt.divisor = 2 /\ fmt.size = 1024)
            => o = [whole |-> 4, frac |-> 0, unit |-> "YiB"]

\* C17 witness: 1100 under the divisor 2, which is above 2^10, was rendered
\* as 4.30 YiB.
C17_Witness ==
    /\ Formatted
    /\ fmt.divisor = 2
    /\ fmt.size = 1100
    /\ FloorLog(fmt.size, fmt.divisor) = 10
    /\ fmt.out[1] = [whole |-> 4, frac |-> 30, unit |-> "YiB"]

----------------------------------------------------------------------------
(* The two numbers of one status *)

\* C18: when a run of the handler writes a status with a size and a gzip
\* size, both are of one version of the buffer: the estimate and the gzip
\* size were computed under the same change count, and next to the size of
\* the file on disk the gzip size is of the text that was saved, whatever
\* edits interleave.
C18_SizesOfOneVersion ==
    \A p \in Threads :
        (UpdateDone(p) /\ Annotated(status))
            => IF call[p].est_called
               THEN call[p].gz_tag = call[p].est_tag
               ELSE versions[call[p].gz_tag + 1] = versions[1]

----------------------------------------------------------------------------
(* Two handlers on one view *)

\* The status update_file_size leaves when it runs alone on the view as it
\* is now.
AloneStatus ==
    LET marked == Unsaved(file_name, is_dirty)
        size == IF marked
                THEN IF settings.estimate_file_size THEN AloneEstimate ELSE None
                ELSE disk
        gzip_size == IF size # None /\ settings.calculate_gzip
                     THEN AloneGzip ELSE None
    IN  IF size = None THEN <<>>
        ELSE <<StatusText([size |-> size, gzip_size |-> gzip_size,
                           pattern |-> IF marked THEN "~{size}" ELSE "{size}",
                           gzip_pattern |-> IF marked THEN "~{size} ({gzip_size})"
                                            ELSE "{size} ({gzip_size})"])>>

\* C19: when the handlers of two events have run interleaved, at least one
\* of them called after the last edit, and both have ended, the status is
\* what one handler run alone on the buffer as it now is leaves: a handler
\* that began on an older version does not write over the status of the one
\* that saw the newer version.
C19_LatestVersionWins ==
    (/\ \A p \in Threads : UpdateDone(p)
     /\ \E p \in Threads : call[p].trigger_tag = change_count)
        => status = AloneStatus

=============================================================================
